---- MODULE Spec2Model ----
(***************************************************************************)
(* Model of src/app.py: one Streamlit script run per form submission.      *)
(* The script validates the form, builds one chat request, calls the chat  *)
(* completion endpoint once, parses the returned text with json.loads and  *)
(* renders the nano_banana_pro_prompt object; three except clauses turn    *)
(* every exception raised inside the try block into an st.error message.   *)
(*                                                                         *)
(* Python values: an Optional is a sequence of length 0 (None) or 1.       *)
(* JSON values are tagged records (Str, List, Dict, Null).                 *)
(***************************************************************************)
EXTENDS Integers, Sequences, FiniteSets, TLC

\* ---------------------------------------------------------------- bounds
MaxRuns == 2          \* submissions (script reruns) explored
MaxImageLen == 2      \* bytes in an uploaded reference image
ByteValues == {0, 255}

\* ------------------------------------------------------- Python Optional
None == <<>>
Some(x) == <<x>>

\* ------------------------------------------------------------ JSON values
Str(s) == [t |-> "str", s |-> s]
List(l) == [t |-> "list", l |-> l]
Dict(d) == [t |-> "dict", d |-> d]
Null == [t |-> "null"]
EmptyDict == [k \in {} |-> Null]

\* ------------------------------------------------------------ form values
\* st.text_input returns "" when left empty.
ApiKeys == {"", "sk-test"}
ProductNames == {"", "Premium Pudding"}
\* the two options of the orientation selectbox (line 182); the options
\* are "<yokonaga> (Landscape 16:9)" and "<tatenaga> (Portrait 9:16)".
OrientationOptions == {"yokonaga (Landscape 16:9)", "tatenaga (Portrait 9:16)"}

RECURSIVE SeqsUpTo(_)
SeqsUpTo(n) ==
    IF n = 0 THEN {<<>>}
    ELSE LET shorter == SeqsUpTo(n - 1)
         IN  shorter \cup {Append(s, b) : s \in {q \in shorter : Len(q) = n - 1}, b \in ByteValues}

\* st.file_uploader returns None or an UploadedFile holding the file's bytes
\* (possibly none at all).
UploadedFiles == {None} \cup {Some(bs) : bs \in SeqsUpTo(MaxImageLen)}

\* line 186: aspect_ratio = "16:9" if "<yokonaga>" in orientation else "9:16"
ContainsYokonaga(o) == o = "yokonaga (Landscape 16:9)"
AspectRatio(o) == IF ContainsYokonaga(o) THEN "16:9" ELSE "9:16"

\* ------------------------------------------------------------ encode_image
\* base64.b64encode: 3 bytes -> 4 sextets; 64 stands for the pad character.
RECURSIVE B64Encode(_)
B64Encode(bs) ==
    IF Len(bs) = 0 THEN <<>>
    ELSE IF Len(bs) = 1 THEN
        <<bs[1] \div 4, (bs[1] % 4) * 16, 64, 64>>
    ELSE IF Len(bs) = 2 THEN
        <<bs[1] \div 4, (bs[1] % 4) * 16 + (bs[2] \div 16), (bs[2] % 16) * 4, 64>>
    ELSE
        <<bs[1] \div 4,
          (bs[1] % 4) * 16 + (bs[2] \div 16),
          (bs[2] % 16) * 4 + (bs[3] \div 64),
          bs[3] % 64>> \o B64Encode(SubSeq(bs, 4, Len(bs)))

\* lines 43-48
encode_image(image_file) ==
    IF image_file # None THEN Some(B64Encode(image_file[1])) ELSE None

\* line 204: an UploadedFile object is truthy whatever its content
\* (io.BytesIO defines neither __bool__ nor __len__).
FileTruthy(f) == f # None
ImgB64(f) == IF FileTruthy(f) THEN encode_image(f) ELSE None

\* line 108: `if image_base64:` -- None and the empty string are falsy.
ImageTruthy(b64) == b64 # None /\ Len(b64[1]) > 0

\* lines 84-115: the user message's content parts.
TextPart(name, o, ar, visual) ==
    [type |-> "text", name |-> name, orientation |-> o, aspect_ratio |-> ar,
     visual_reference |-> visual]
ImagePart(b64) ==
    [type |-> "image_url", prefix |-> "data:image/jpeg;base64,", data |-> b64]
BuildUserContent(name, o, ar, b64) ==
    IF ImageTruthy(b64)
    THEN <<TextPart(name, o, ar, TRUE), ImagePart(b64[1])>>
    ELSE <<TextPart(name, o, ar, FALSE)>>

\* ------------------------------------------------------ input validation
ValidationSkipsName(key, name) ==
    IF key = "" THEN "error_missing_key" ELSE "ok"

ValidationSkipsKey(key, name) ==
    IF name = "" THEN "warning_missing_name" ELSE "ok"

\* lines 193-197
Validation(key, name) ==
    IF key = "" THEN "error_missing_key"
    ELSE IF name = "" THEN "warning_missing_name"
    ELSE "ok"

\* ------------------------------------------------- chat completion outcomes
\* what client.chat.completions.create can do: raise, or return a message
\* whose content is a string or None.
TxtEmpty == ""
TxtProse == "Sure! Here is your prompt."
TxtEmptyObject == "{}"
TxtArray == "[]"
TxtWide == "{\"target_audience\":\"30 years old\",\"nano_banana_pro_prompt\":{\"prompt\":\"a pudding\",\"aspect_ratio\":\"16:9\",\"color_palette\":[\"#FFD700\",\"#FFFFFF\"]}}"
TxtTall == "{\"target_audience\":\"30 years old\",\"nano_banana_pro_prompt\":{\"prompt\":\"a pudding\",\"aspect_ratio\":\"9:16\",\"color_palette\":[\"#FFD700\"]}}"
TxtSquare == "{\"nano_banana_pro_prompt\":{\"prompt\":\"a pudding\",\"aspect_ratio\":\"1:1\"}}"
TxtNoAspect == "{\"nano_banana_pro_prompt\":{\"prompt\":\"a pudding\"}}"
TxtEmptyPrompt == "{\"nano_banana_pro_prompt\":{\"prompt\":\"\"}}"
TxtNoPrompt == "{\"nano_banana_pro_prompt\":{\"aspect_ratio\":\"16:9\"}}"
TxtFlattened == "{\"prompt\":\"a pudding\",\"aspect_ratio\":\"16:9\",\"color_palette\":[\"#FFD700\"]}"
TxtEmptyPalette == "{\"nano_banana_pro_prompt\":{\"prompt\":\"a pudding\",\"color_palette\":[]}}"
TxtBadColor == "{\"nano_banana_pro_prompt\":{\"prompt\":\"a pudding\",\"color_palette\":[\"gold\"]}}"
TxtNullPrompt == "{\"nano_banana_pro_prompt\":null}"

ResponseTexts ==
    {TxtEmpty, TxtProse, TxtEmptyObject, TxtArray, TxtWide, TxtTall, TxtSquare,
     TxtNoAspect, TxtEmptyPrompt, TxtNoPrompt, TxtFlattened, TxtEmptyPalette,
     TxtBadColor, TxtNullPrompt}

ApiErrors == {"AuthenticationError", "APIConnectionError", "APITimeoutError", "RateLimitError"}

Raises(e) == [raises |-> e, content |-> None]
Returns(c) == [raises |-> "", content |-> c]
ProviderOutcomes ==
    {Raises(e) : e \in ApiErrors} \cup {Returns(None)} \cup {Returns(Some(s)) : s \in ResponseTexts}

\* ---------------------------------------------------------------- json.loads
Parsed(v) == [exc |-> "", value |-> Some(v)]
Fails(e) == [exc |-> e, value |-> None]

JsonLoads(s) ==
    CASE s = TxtEmpty -> Fails("JSONDecodeError")
      [] s = TxtProse -> Fails("JSONDecodeError")
      [] s = TxtEmptyObject -> Parsed(Dict(EmptyDict))
      [] s = TxtArray -> Parsed(List(<<>>))
      [] s = TxtWide -> Parsed(Dict(
            [target_audience |-> Str("30 years old"),
             nano_banana_pro_prompt |-> Dict(
                [prompt |-> Str("a pudding"), aspect_ratio |-> Str("16:9"),
                 color_palette |-> List(<<Str("#FFD700"), Str("#FFFFFF")>>)])]))
      [] s = TxtTall -> Parsed(Dict(
            [target_audience |-> Str("30 years old"),
             nano_banana_pro_prompt |-> Dict(
                [prompt |-> Str("a pudding"), aspect_ratio |-> Str("9:16"),
                 color_palette |-> List(<<Str("#FFD700")>>)])]))
      [] s = TxtSquare -> Parsed(Dict(
            [nano_banana_pro_prompt |-> Dict(
                [prompt |-> Str("a pudding"), aspect_ratio |-> Str("1:1")])]))
      [] s = TxtNoAspect -> Parsed(Dict(
            [nano_banana_pro_prompt |-> Dict([prompt |-> Str("a pudding")])]))
      [] s = TxtEmptyPrompt -> Parsed(Dict(
            [nano_banana_pro_prompt |-> Dict([prompt |-> Str("")])]))
      [] s = TxtNoPrompt -> Parsed(Dict(
            [nano_banana_pro_prompt |-> Dict([aspect_ratio |-> Str("16:9")])]))
      [] s = TxtFlattened -> Parsed(Dict(
            [prompt |-> Str("a pudding"), aspect_ratio |-> Str("16:9"),
             color_palette |-> List(<<Str("#FFD700")>>)]))
      [] s = TxtEmptyPalette -> Parsed(Dict(
            [nano_banana_pro_prompt |-> Dict(
                [prompt |-> Str("a pudding"), color_palette |-> List(<<>>)])]))
      [] s = TxtBadColor -> Parsed(Dict(
            [nano_banana_pro_prompt |-> Dict(
                [prompt |-> Str("a pudding"), color_palette |-> List(<<Str("gold")>>)])]))
      [] s = TxtNullPrompt -> Parsed(Dict([nano_banana_pro_prompt |-> Null]))

\* line 217: json.loads(json_result_str); json.loads(None) is a TypeError.
ParseResult(content) ==
    IF content = None THEN Fails("TypeError") ELSE JsonLoads(content[1])

\* ------------------------------------------------------------ dict access
HasKey(j, k) == j.t = "dict" /\ k \in DOMAIN j.d

\* st.color_picker accepts only "#RGB" / "#RRGGBB" hex strings.
IsHexColor(c) == c.t = "str" /\ c.s \in {"#FFD700", "#FFFFFF"}

\* lines 229-237: the first exception the left column raises, "" if none.
\*   229  json_data.get(...)                     AttributeError unless a dict
\*   233  json_data["nano_banana_pro_prompt"]    KeyError when absent
\*   233  "color_palette" in <object>            TypeError on null
\*   235  st.columns(len(palette))               rejects 0 columns
\*   237  color_picker(label, color)             rejects a non-hex colour
StrategyException(j) ==
    IF j.t # "dict" THEN "AttributeError"
    ELSE IF ~HasKey(j, "nano_banana_pro_prompt") THEN "KeyError"
    ELSE LET obj == j.d.nano_banana_pro_prompt IN
         IF obj.t = "null" THEN "TypeError"
         ELSE IF ~HasKey(obj, "color_palette") THEN ""
         ELSE LET pal == obj.d.color_palette IN
              IF pal.t # "list" THEN "TypeError"
              ELSE IF Len(pal.l) = 0 THEN "StreamlitAPIException"
              ELSE IF \E i \in 1..Len(pal.l) : ~IsHexColor(pal.l[i])
                   THEN "StreamlitAPIException"
              ELSE ""

\* number of colour pickers lines 235-237 render
SwatchCount(j) ==
    LET obj == j.d.nano_banana_pro_prompt IN
    IF HasKey(obj, "color_palette") THEN Len(obj.d.color_palette.l) ELSE 0

\* lines 241 and 246: the object handed to json.dumps
PromptObject(j) == j.d.nano_banana_pro_prompt

\* ------------------------------------------------------------ except clauses
\* class hierarchy of the exceptions above (openai.APITimeoutError derives
\* from openai.APIConnectionError).
Mro(e) ==
    CASE e = "AuthenticationError" -> {"AuthenticationError", "Exception"}
      [] e = "APIConnectionError" -> {"APIConnectionError", "Exception"}
      [] e = "APITimeoutError" -> {"APITimeoutError", "APIConnectionError", "Exception"}
      [] OTHER -> {e, "Exception"}
IsInstance(e, cls) == cls \in Mro(e)

ExceptClauseSwallow(e) ==
    IF IsInstance(e, "AuthenticationError") THEN "error_invalid_key"
    ELSE IF IsInstance(e, "APIConnectionError") THEN "error_connection"
    ELSE ""

\* lines 251-256: the message the matching except clause shows
ExceptClause(e) ==
    IF IsInstance(e, "AuthenticationError") THEN "error_invalid_key"
    ELSE IF IsInstance(e, "APIConnectionError") THEN "error_connection"
    ELSE IF IsInstance(e, "Exception") THEN "error_unexpected"
    ELSE ""

AfterRaiseRetry(stage) == IF stage = "call" THEN "call" ELSE "except"

\* lines 128-129 and 212/251: an exception raised anywhere in the try block
\* (generate_prompt re-raises its own) transfers control to the except clauses.
AfterRaise(stage) == "except"

\* ------------------------------------------------------------------ state
VARIABLES
    pc,               \* position of the script run
    runs,             \* submissions so far
    api_key,          \* sidebar text input (line 136)
    product_name,     \* form text input (line 157)
    orientation,      \* form selectbox (line 182)
    uploaded_file,    \* form file uploader (line 161)
    aspect_ratio,     \* line 186
    img_b64,          \* line 204
    user_content,     \* content parts of the user message (lines 84-115)
    callCount,        \* chat.completions.create calls of this submission
    json_result_str,  \* line 214
    json_data,        \* line 217
    status_state,     \* the st.status container (lines 207, 219)
    messages,         \* st.error / st.warning / st.success shown, in order
    swatches,         \* colour pickers rendered (line 237)
    code_shown,       \* object serialised into st.code (line 241)
    download_data,    \* object serialised into st.download_button (line 246)
    raised            \* exception raised inside the try block, "" if none

vars == <<pc, runs, api_key, product_name, orientation, uploaded_file,
          aspect_ratio, img_b64, user_content, callCount, json_result_str,
          json_data, status_state, messages, swatches, code_shown,
          download_data, raised>>

form == <<api_key, product_name, orientation, uploaded_file, aspect_ratio>>
outputs == <<status_state, messages, swatches, code_shown, download_data>>

\* first script run: nothing submitted, every widget at its default
Init ==
    /\ pc = "form"
    /\ runs = 0
    /\ api_key = ""
    /\ product_name = ""
    /\ orientation = "yokonaga (Landscape 16:9)"
    /\ uploaded_file = None
    /\ aspect_ratio = AspectRatio(orientation)
    /\ img_b64 = None
    /\ user_content = <<>>
    /\ callCount = 0
    /\ json_result_str = None
    /\ json_data = None
    /\ status_state = "absent"
    /\ messages = <<>>
    /\ swatches = 0
    /\ code_shown = None
    /\ download_data = None
    /\ raised = ""

\* lines 131-189: the user fills the widgets and presses the submit button;
\* Streamlit reruns the script from the top, so nothing of an earlier run
\* is left on the page.
Submit ==
    /\ pc \in {"form", "done"}
    /\ runs < MaxRuns
    /\ runs' = runs + 1
    /\ \E k \in ApiKeys, n \in ProductNames, o \in OrientationOptions, f \in UploadedFiles :
          /\ api_key' = k
          /\ product_name' = n
          /\ orientation' = o
          /\ uploaded_file' = f
          /\ aspect_ratio' = AspectRatio(o)
    /\ img_b64' = None
    /\ user_content' = <<>>
    /\ callCount' = 0
    /\ json_result_str' = None
    /\ json_data' = None
    /\ status_state' = "absent"
    /\ messages' = <<>>
    /\ swatches' = 0
    /\ code_shown' = None
    /\ download_data' = None
    /\ raised' = ""
    /\ pc' = "validate"

\* lines 192-210: input validation, encode_image, opening of st.status
Validate ==
    /\ pc = "validate"
    /\ LET v == Validation(api_key, product_name) IN
       IF v = "ok"
       THEN /\ img_b64' = ImgB64(uploaded_file)
            /\ status_state' = "running"
            /\ messages' = messages
            /\ pc' = "build"
       ELSE /\ messages' = Append(messages, v)
            /\ pc' = "done"
            /\ UNCHANGED <<img_b64, status_state>>
    /\ UNCHANGED <<runs, form, user_content, callCount, json_result_str,
                   json_data, swatches, code_shown, download_data, raised>>

\* lines 50-115: generate_prompt up to the request it sends
BuildRequest ==
    /\ pc = "build"
    /\ user_content' = BuildUserContent(product_name, orientation, aspect_ratio, img_b64)
    /\ pc' = "call"
    /\ UNCHANGED <<runs, form, img_b64, callCount, json_result_str, json_data,
                   outputs, raised>>

\* lines 117-129 and 214: the one chat.completions.create call
ChatCall ==
    /\ pc = "call"
    /\ callCount' = callCount + 1
    /\ \E r \in ProviderOutcomes :
          IF r.raises # ""
          THEN /\ raised' = r.raises
               /\ pc' = AfterRaise("call")
               /\ UNCHANGED json_result_str
          ELSE /\ json_result_str' = r.content
               /\ pc' = "parse"
               /\ UNCHANGED raised
    /\ UNCHANGED <<runs, form, img_b64, user_content, json_data, outputs>>

\* lines 217-222: json.loads, status.update(state="complete"), st.success
Parse ==
    /\ pc = "parse"
    /\ LET r == ParseResult(json_result_str) IN
       IF r.exc # ""
       THEN /\ raised' = r.exc
            /\ pc' = AfterRaise("parse")
            /\ UNCHANGED <<json_data, status_state, messages>>
       ELSE /\ json_data' = r.value
            /\ status_state' = "complete"
            /\ messages' = Append(messages, "success")
            /\ pc' = "strategy"
            /\ UNCHANGED raised
    /\ UNCHANGED <<runs, form, img_b64, user_content, callCount, json_result_str,
                   swatches, code_shown, download_data>>

\* lines 225-237: left column (strategy text and colour swatches)
ShowStrategy ==
    /\ pc = "strategy"
    /\ LET e == StrategyException(json_data[1]) IN
       IF e # ""
       THEN /\ raised' = e
            /\ pc' = AfterRaise("strategy")
            /\ UNCHANGED swatches
       ELSE /\ swatches' = SwatchCount(json_data[1])
            /\ pc' = "output"
            /\ UNCHANGED raised
    /\ UNCHANGED <<runs, form, img_b64, user_content, callCount, json_result_str,
                   json_data, status_state, messages, code_shown, download_data>>

\* lines 239-249: right column (st.code and st.download_button)
ShowOutput ==
    /\ pc = "output"
    /\ code_shown' = Some(PromptObject(json_data[1]))
    /\ download_data' = Some(PromptObject(json_data[1]))
    /\ pc' = "done"
    /\ UNCHANGED <<runs, form, img_b64, user_content, callCount, json_result_str,
                   json_data, status_state, messages, swatches, raised>>

\* lines 251-256: the except clauses
Except ==
    /\ pc = "except"
    /\ LET m == ExceptClause(raised) IN
       messages' = IF m = "" THEN messages ELSE Append(messages, m)
    /\ pc' = "done"
    /\ UNCHANGED <<runs, form, img_b64, user_content, callCount, json_result_str,
                   json_data, status_state, swatches, code_shown, download_data,
                   raised>>

Next ==
    \/ Submit
    \/ Validate
    \/ BuildRequest
    \/ ChatCall
    \/ Parse
    \/ ShowStrategy
    \/ ShowOutput
    \/ Except

Spec == Init /\ [][Next]_vars

\* ------------------------------------------------------------ type invariant
TypeOK ==
    /\ pc \in {"form", "validate", "build", "call", "parse", "strategy", "output", "except", "done"}
    /\ runs \in 0..MaxRuns
    /\ api_key \in ApiKeys
    /\ product_name \in ProductNames
    /\ orientation \in OrientationOptions
    /\ uploaded_file \in UploadedFiles
    /\ aspect_ratio \in {"16:9", "9:16"}
    /\ callCount \in Nat
    /\ status_state \in {"absent", "running", "complete"}
    /\ swatches \in Nat

\* ------------------------------------------------------------ observations
ErrorMessages == {"error_missing_key", "error_invalid_key", "error_connection", "error_unexpected"}
HasMessage(m) == \E i \in 1..Len(messages) : messages[i] = m
SuccessShown == HasMessage("success")
ErrorShown == \E i \in 1..Len(messages) : messages[i] \in ErrorMessages
LastMessage == IF messages = <<>> THEN "" ELSE messages[Len(messages)]

\* the aspect_ratio field of a JSON object, "absent" when it has none
AspectOf(obj) ==
    IF HasKey(obj, "aspect_ratio") /\ obj.d.aspect_ratio.t = "str"
    THEN obj.d.aspect_ratio.s
    ELSE "absent"

HasImagePart == \E i \in 1..Len(user_content) : user_content[i].type = "image_url"
RequestBuilt == user_content # <<>>

PromptObjectOf(j) ==
    IF HasKey(j, "nano_banana_pro_prompt") THEN Some(j.d.nano_banana_pro_prompt) ELSE None
EmptyPrompt(j) ==
    /\ PromptObjectOf(j) # None
    /\ HasKey(PromptObjectOf(j)[1], "prompt")
    /\ PromptObjectOf(j)[1].d.prompt = Str("")
FlattenedResponse(j) ==
    /\ j.t = "dict"
    /\ ~HasKey(j, "nano_banana_pro_prompt")
    /\ HasKey(j, "prompt")

\* ------------------------------------------------------------------ claims

\* C1: whenever a prompt object is displayed or offered for download, its
\* aspect_ratio is "16:9" if the selected orientation is Landscape and
\* "9:16" otherwise, whatever the chat response contains.
C1_AspectRatioFollowsOrientation ==
    /\ code_shown # None =>
          AspectOf(code_shown[1]) = (IF ContainsYokonaga(orientation) THEN "16:9" ELSE "9:16")
    /\ download_data # None =>
          AspectOf(download_data[1]) = (IF ContainsYokonaga(orientation) THEN "16:9" ELSE "9:16")

\* C2: a submission whose product name is empty issues no chat-completion
\* call, reports no success, and ends with a validation message only.
C2_EmptyNameNoCall ==
    (runs > 0 /\ product_name = "") =>
        /\ callCount = 0
        /\ pc \in {"validate", "done"}
        /\ ~SuccessShown
        /\ pc = "done" => messages \in {<<"error_missing_key">>, <<"warning_missing_name">>}

C2_Witness ==
    /\ pc = "done"
    /\ product_name = ""
    /\ api_key # ""
    /\ messages = <<"warning_missing_name">>
    /\ callCount = 0

\* C3: while the API key is empty no chat-completion call is issued, and the
\* submission ends with the missing-key error, whatever the other fields hold.
C3_NoKeyNoCall ==
    (runs > 0 /\ api_key = "") =>
        /\ callCount = 0
        /\ pc \in {"validate", "done"}
        /\ pc = "done" => messages = <<"error_missing_key">>

C3_Witness ==
    /\ pc = "done"
    /\ api_key = ""
    /\ product_name # ""
    /\ uploaded_file # None
    /\ messages = <<"error_missing_key">>
    /\ callCount = 0

\* C4: for an empty response, a non-JSON response and a JSON response whose
\* prompt object has no `prompt` field, the submission ends with an error
\* and no prompt object is displayed or offered for download.
C4_MalformedNeverDisplayed ==
    (pc = "done" /\ json_result_str \in {Some(TxtEmpty), Some(TxtProse), Some(TxtNoPrompt)}) =>
        /\ ErrorShown
        /\ code_shown = None
        /\ download_data = None

\* C5: when the chat call returns a prompt object whose `prompt` is the
\* empty string, the submission ends in an error and reports no success.
C5_EmptyPromptRejected ==
    (pc = "done" /\ json_data # None /\ EmptyPrompt(json_data[1])) =>
        /\ ~SuccessShown
        /\ ErrorShown
        /\ code_shown = None

\* C6: the chat request carries an image_url part if and only if a reference
\* image was supplied (also one of zero bytes); without a reference image it
\* has exactly the text part, without the visual-reference instruction.
C6_ImagePartIffReferenceImage ==
    RequestBuilt =>
        /\ HasImagePart <=> (uploaded_file # None)
        /\ uploaded_file = None =>
              /\ Len(user_content) = 1
              /\ user_content[1].type = "text"
              /\ ~user_content[1].visual_reference

\* C7: a success report and an error report are never both produced, and a
\* finished submission that reported success has displayed the prompt object.
C7_NoPartialSuccess ==
    /\ ~(SuccessShown /\ ErrorShown)
    /\ (pc = "done" /\ (SuccessShown \/ status_state = "complete")) => code_shown # None

\* C8: every submission in which the chat call, the JSON parsing or the
\* extraction of the prompt object raised ends with an error message:
\* the invalid-key message for an authentication error, the connection
\* message when the provider cannot be reached.
C8_EveryFailureReported ==
    (pc = "done" /\ raised # "") =>
        /\ LastMessage \in ErrorMessages
        /\ raised = "AuthenticationError" => LastMessage = "error_invalid_key"
        /\ raised \in {"APIConnectionError", "APITimeoutError"} => LastMessage = "error_connection"
        /\ code_shown = None

C8_Witness ==
    /\ pc = "done"
    /\ raised = "KeyError"
    /\ json_data # None
    /\ LastMessage = "error_unexpected"

\* C9: a submission issues at most one chat-completion call; once the call
\* has failed the submission only handles the error and ends, with no
\* further call.
C9_AtMostOneCall ==
    /\ callCount <= 1
    /\ raised \in ApiErrors =>
          /\ callCount = 1
          /\ pc \in {"except", "done"}
          /\ json_result_str = None
          /\ pc = "done" => LastMessage \in ErrorMessages

C9_Witness ==
    /\ pc = "done"
    /\ raised = "APIConnectionError"
    /\ callCount = 1
    /\ LastMessage = "error_connection"

\* C10: when the parsed response has no nested nano_banana_pro_prompt key
\* but carries the prompt-object fields itself, the whole top-level object
\* is displayed as the prompt object and the submission succeeds.
C10_FlattenedResponseAccepted ==
    (pc = "done" /\ json_data # None /\ FlattenedResponse(json_data[1])) =>
        /\ code_shown = json_data
        /\ SuccessShown
        /\ ~ErrorShown

====
